---- MODULE Spec2Model ----
(***************************************************************************)
(* Model of the DWML hourly-forecast aligner of weather_mcp_server.py:     *)
(* WeatherDWMLParser (layout selection, skeleton construction, positional  *)
(* merge of the parameter series) and the tool get_hourly_weather_forecast *)
(* (argument validation, fetch, parse, truncation).                        *)
(*                                                                         *)
(* Representation of the document.  An XML text is either not well formed  *)
(* or an element tree.  Of the tree the parser reads only:                 *)
(*   - the time-layout elements in document order, each with an optional   *)
(*     layout-key child and its start-valid-time children;                 *)
(*   - the first parameters element and, inside it, the temperature,       *)
(*     humidity, wind-speed, direction, weather,                           *)
(*     probability-of-precipitation and cloud-amount elements.             *)
(* An optional attribute or child is a sequence of length 0 or 1.  The     *)
(* text of a value cell is a sequence of one-character strings (<<>> is    *)
(* the empty element, whose .text is None); keys, types and units are      *)
(* strings.  A start-valid-time text is a record telling whether it is an  *)
(* ISO instant, some other text, or missing.                               *)
(***************************************************************************)
EXTENDS Integers, Sequences, FiniteSets, TLC

(***************************************************************************)
(* Bounds of the model and constants of the program.                       *)
(***************************************************************************)
\* a time layout is taken as hourly when it has more than this many entries
HourlyThreshold == 24
\* the longest layout of the model has HourlyThreshold + MaxExtra timestamps
MaxExtra == 2
\* the enumerated value series have at most this many cells
MaxCells == 2
\* a parser instance is asked to parse at most this many times
MaxParses == 2
\* run_weather_forecast is called at most this many times
MaxRuns == 2
MinLatitude == -90
MaxLatitude == 90
MinLongitude == -180
MaxLongitude == 180
MinHours == 1
MaxHours == 168

Min(a, b) == IF a < b THEN a ELSE b

(***************************************************************************)
(* Text of a value cell: str.isdigit and float.                            *)
(***************************************************************************)
DigitChars == <<"0", "1", "2", "3", "4", "5", "6", "7", "8", "9">>

IsDigitChar(c) == \E d \in 1..10 : DigitChars[d] = c

DigitVal(c) == (CHOOSE d \in 1..10 : DigitChars[d] = c) - 1

\* value.text.isdigit(): a non-empty text of decimal digits only
IsDigit(t) == Len(t) > 0 /\ \A i \in 1..Len(t) : IsDigitChar(t[i])

RECURSIVE DecimalValue(_)
DecimalValue(t) ==
    IF t = <<>> THEN 0
    ELSE 10 * DecimalValue(SubSeq(t, 1, Len(t) - 1)) + DigitVal(t[Len(t)])

\* the texts float() converts: of the texts of the model, the integer
\* literals with an optional sign; on any other text float() raises ValueError
FloatOk(t) ==
    \/ IsDigit(t)
    \/ Len(t) > 1 /\ t[1] \in {"-", "+"} /\ IsDigit(Tail(t))

Float(t) ==
    IF IsDigit(t) THEN DecimalValue(t)
    ELSE IF t[1] = "-" THEN 0 - DecimalValue(Tail(t))
    ELSE DecimalValue(Tail(t))

\* mutant of Get: the attribute is never read
GetDefault(attr, default) == default

\* element.get(name, default) on an optional attribute
Get(attr, default) == IF attr = <<>> THEN default ELSE attr[1]

\* str.lower() on the type attributes of the model
Lower(s) ==
    CASE s = "Hourly" -> "hourly"
      [] s = "HOURLY" -> "hourly"
      [] s = "Maximum" -> "maximum"
      [] OTHER -> s

(***************************************************************************)
(* Timestamps: datetime.fromisoformat, isoformat and strftime.             *)
(***************************************************************************)
\* the text of a start-valid-time element
IsoText(d, h) == [form |-> "iso", day |-> d, hour |-> h]
GarbageText == [form |-> "text", day |-> 0, hour |-> 0]
NoText == [form |-> "none", day |-> 0, hour |-> 0]

\* datetime.fromisoformat(time_str): TypeError on None, ValueError on a text
\* that is no ISO instant
FromIsoFormat(ts) ==
    CASE ts.form = "none" -> [exc |-> "TypeError", day |-> 0, hour |-> 0]
      [] ts.form = "text" -> [exc |-> "ValueError", day |-> 0, hour |-> 0]
      [] OTHER -> [exc |-> "", day |-> ts.day, hour |-> ts.hour]

\* dt.isoformat()
IsoFormat(dt) == [day |-> dt.day, hour |-> dt.hour, minute |-> 0, second |-> 0]

\* dt.strftime('%Y-%m-%d %I:%M:%S %p')
StrfTime(dt) ==
    [day |-> dt.day,
     hour12 |-> IF dt.hour % 12 = 0 THEN 12 ELSE dt.hour % 12,
     minute |-> 0, second |-> 0,
     ampm |-> IF dt.hour < 12 THEN "AM" ELSE "PM"]

\* the forecast record of one parsed timestamp
Forecast(dt) == [valid_time |-> IsoFormat(dt), datetime_readable |-> StrfTime(dt)]

(***************************************************************************)
(* The parser's helpers as operators on values: each takes the list of     *)
(* forecasts and gives the list after the helper ran, together with the    *)
(* exception that ended it ("" when it returned).                          *)
(***************************************************************************)
\* dict[k] = v
Put(d, k, v) == [x \in (DOMAIN d) \cup {k} |-> IF x = k THEN v ELSE d[x]]

Has(d, k) == k \in DOMAIN d

\* mutant of Matches: the time-layout attribute is not compared
MatchesAny(series, layout_key) == TRUE

\* the test `time_layout == layout_key` of a temperature element and the
\* predicate [@time-layout="<layout_key>"] of the other lookups
Matches(series, layout_key) == series.layout = <<layout_key>>

\* parameters.find('.//<tag>[@time-layout="<layout_key>"]'): the first
\* element of the tag with that attribute, as a sequence of length 0 or 1
RECURSIVE Find(_, _)
Find(elems, layout_key) ==
    IF elems = <<>> THEN <<>>
    ELSE IF Matches(Head(elems), layout_key) THEN <<Head(elems)>>
    ELSE Find(Tail(elems), layout_key)

\* mutant of Fills: the index is not compared with the number of records
FillsUnguarded(i, forecasts, text) == text # <<>>

\* the condition `i < len(forecasts) and value.text` (i counted from 1)
Fills(i, forecasts, text) == i <= Len(forecasts) /\ text # <<>>

\* the cells on which float(value.text) raises ValueError
BadCells(values, forecasts) ==
    {i \in 1..Len(values) : Fills(i, forecasts, values[i]) /\ ~FloatOk(values[i])}

FirstBad(values, forecasts) ==
    CHOOSE i \in BadCells(values, forecasts) :
        \A j \in BadCells(values, forecasts) : i <= j

\* the cells the loop `for i, value in enumerate(values)` reaches
Reached(values, forecasts) ==
    IF BadCells(values, forecasts) = {} THEN Len(values)
    ELSE FirstBad(values, forecasts) - 1

\* mutant of MergeValues: the cells are joined to the records that follow the
\* cells already filled, not by position
MergeValuesPacked(forecasts, values, key, units) ==
    [exc |-> IF BadCells(values, forecasts) = {} THEN "" ELSE "ValueError",
     forecasts |->
        [i \in 1..Len(forecasts) |->
            IF i + 1 <= Reached(values, forecasts)
               /\ Fills(i + 1, forecasts, values[i + 1])
            THEN Put(forecasts[i], key,
                     [value |-> Float(values[i + 1]), units |-> units])
            ELSE forecasts[i]]]

\* the loop that stores {'value': float(value.text), 'units': units} under
\* `key` of forecasts[i] for every value cell i
MergeValues(forecasts, values, key, units) ==
    [exc |-> IF BadCells(values, forecasts) = {} THEN "" ELSE "ValueError",
     forecasts |->
        [i \in 1..Len(forecasts) |->
            IF i <= Reached(values, forecasts) /\ Fills(i, forecasts, values[i])
            THEN Put(forecasts[i], key,
                     [value |-> Float(values[i]), units |-> units])
            ELSE forecasts[i]]]

\* mutant of ParseTemperature: the elements are merged last to first, the
\* earlier series of a key stays
RECURSIVE ParseTemperatureReversed(_, _, _)
ParseTemperatureReversed(temps, layout_key, forecasts) ==
    IF temps = <<>> THEN [exc |-> "", forecasts |-> forecasts]
    ELSE LET rest == ParseTemperatureReversed(Tail(temps), layout_key, forecasts)
             temp == Head(temps)
         IN  IF rest.exc # "" \/ ~Matches(temp, layout_key) THEN rest
             ELSE MergeValues(rest.forecasts, temp.values,
                              "temperature_" \o Lower(Get(temp.type, "unknown")),
                              Get(temp.units, "Fahrenheit"))

\* _parse_temperature_data: every temperature element, in document order
RECURSIVE ParseTemperature(_, _, _)
ParseTemperature(temps, layout_key, forecasts) ==
    IF temps = <<>> THEN [exc |-> "", forecasts |-> forecasts]
    ELSE LET temp == Head(temps)
             temp_type == Get(temp.type, "unknown")
             units == Get(temp.units, "Fahrenheit")
             key == "temperature_" \o Lower(temp_type)
             one == IF Matches(temp, layout_key)
                    THEN MergeValues(forecasts, temp.values, key, units)
                    ELSE [exc |-> "", forecasts |-> forecasts]
         IN  IF one.exc # "" THEN one
             ELSE ParseTemperature(Tail(temps), layout_key, one.forecasts)

\* the shape shared by _parse_humidity_data, _parse_precipitation_data and
\* _parse_cloud_cover: the first matching element, merged under a fixed key
ParseSingle(elems, layout_key, forecasts, key, default_units) ==
    LET found == Find(elems, layout_key)
    IN  IF found = <<>> THEN [exc |-> "", forecasts |-> forecasts]
        ELSE MergeValues(forecasts, found[1].values, key,
                         Get(found[1].units, default_units))

ParseHumidity(elems, layout_key, forecasts) ==
    ParseSingle(elems, layout_key, forecasts, "humidity", "percent")

ParsePrecipitation(elems, layout_key, forecasts) ==
    ParseSingle(elems, layout_key, forecasts, "precipitation_probability", "percent")

ParseCloudCover(elems, layout_key, forecasts) ==
    ParseSingle(elems, layout_key, forecasts, "cloud_cover", "percent")

\* forecasts[i]['wind'][sub] = v, creating the 'wind' entry when missing
PutWind(f, sub, v) ==
    Put(f, "wind", Put(IF Has(f, "wind") THEN f["wind"] ELSE <<>>, sub, v))

\* the wind-speed half of _parse_wind_data
ParseWindSpeed(elems, layout_key, forecasts) ==
    LET found == Find(elems, layout_key)
        values == found[1].values
        units == Get(found[1].units, "knots")
    IN  IF found = <<>> THEN [exc |-> "", forecasts |-> forecasts]
        ELSE [exc |-> IF BadCells(values, forecasts) = {} THEN "" ELSE "ValueError",
              forecasts |->
                [i \in 1..Len(forecasts) |->
                    IF i <= Reached(values, forecasts)
                       /\ Fills(i, forecasts, values[i])
                    THEN PutWind(forecasts[i], "speed",
                                 [value |-> Float(values[i]), units |-> units])
                    ELSE forecasts[i]]]

\* float(value.text) if value.text.isdigit() else value.text
DirectionValue(text) ==
    IF IsDigit(text) THEN [number |-> Float(text)] ELSE [text |-> text]

\* the direction half of _parse_wind_data
ParseWindDirection(elems, layout_key, forecasts) ==
    LET found == Find(elems, layout_key)
        values == found[1].values
        units == Get(found[1].units, "degrees")
    IN  IF found = <<>> THEN [exc |-> "", forecasts |-> forecasts]
        ELSE [exc |-> "",
              forecasts |->
                [i \in 1..Len(forecasts) |->
                    IF i <= Len(values) /\ Fills(i, forecasts, values[i])
                    THEN PutWind(forecasts[i], "direction",
                                 [value |-> DirectionValue(values[i]),
                                  units |-> units])
                    ELSE forecasts[i]]]

\* _parse_wind_data: the speed, then the direction
ParseWind(parameters, layout_key, forecasts) ==
    LET speed == ParseWindSpeed(parameters.wind_speed, layout_key, forecasts)
    IN  IF speed.exc # "" THEN speed
        ELSE ParseWindDirection(parameters.direction, layout_key, speed.forecasts)

\* _parse_weather_conditions
ParseWeather(elems, layout_key, forecasts) ==
    LET found == Find(elems, layout_key)
        conditions == found[1].conditions
    IN  IF found = <<>> THEN [exc |-> "", forecasts |-> forecasts]
        ELSE [exc |-> "",
              forecasts |->
                [i \in 1..Len(forecasts) |->
                    IF i <= Len(conditions)
                    THEN Put(forecasts[i], "weather_conditions",
                             Get(conditions[i], "No description"))
                    ELSE forecasts[i]]]

(***************************************************************************)
(* Layout selection and skeleton construction.                             *)
(***************************************************************************)
\* mutant of IsHourly: 24 timestamps are enough
IsHourlyFrom24(layout) == layout.key # <<>> /\ Len(layout.times) >= HourlyThreshold

\* `layout_key is not None` and `len(start_times) > 24`
IsHourly(layout) == layout.key # <<>> /\ Len(layout.times) > HourlyThreshold

\* mutant of SelectLayout: the loop goes on after a hit, the last hourly
\* layout stays
RECURSIVE SelectLastLayout(_)
SelectLastLayout(layouts) ==
    IF layouts = <<>> THEN <<>>
    ELSE IF SelectLastLayout(Tail(layouts)) # <<>> THEN SelectLastLayout(Tail(layouts))
    ELSE IF IsHourly(Head(layouts)) THEN <<Head(layouts)>>
    ELSE <<>>

\* the loop over time_layouts: the first hourly layout, as a sequence of
\* length 0 or 1
RECURSIVE SelectLayout(_)
SelectLayout(layouts) ==
    IF layouts = <<>> THEN <<>>
    ELSE IF IsHourly(Head(layouts)) THEN <<Head(layouts)>>
    ELSE SelectLayout(Tail(layouts))

\* `if not hourly_times or not hourly_layout_key` (a layout-key element
\* without text has the key None)
NoHourlyLayout(selected) ==
    IF selected = <<>> THEN TRUE
    ELSE IF selected[1].times = <<>> THEN TRUE
    ELSE selected[1].key[1] = ""

\* the loop over hourly_times: a record per timestamp that parses, none for
\* one that raises ValueError; any other exception leaves the loop
RECURSIVE Skeleton(_)
Skeleton(times) ==
    IF times = <<>> THEN [exc |-> "", forecasts |-> <<>>]
    ELSE LET dt == FromIsoFormat(Head(times))
             rest == Skeleton(Tail(times))
         IN  IF dt.exc = "ValueError" THEN rest
             ELSE IF dt.exc # "" THEN [exc |-> dt.exc, forecasts |-> <<>>]
             ELSE [exc |-> rest.exc,
                   forecasts |-> IF rest.exc = "" THEN <<Forecast(dt)>> \o rest.forecasts
                                 ELSE <<>>]

\* parse_hourly_forecast as a function of the element tree: the returned list
\* and the way the call ended ("no_layout", "no_parameters", "normal", or
\* "except" for the handlers that return [])
ParseHourlyForecast(tree) ==
    LET selected == SelectLayout(tree.layouts)
        key == selected[1].key[1]
        sk == Skeleton(selected[1].times)
        par == tree.parameters[1]
        t == ParseTemperature(par.temperature, key, sk.forecasts)
        h == ParseHumidity(par.humidity, key, t.forecasts)
        w == ParseWind(par, key, h.forecasts)
        c == ParseWeather(par.weather, key, w.forecasts)
        pr == ParsePrecipitation(par.pop, key, c.forecasts)
        cl == ParseCloudCover(par.cloud, key, pr.forecasts)
        failed == [ret |-> <<>>, via |-> "except"]
    IN  IF NoHourlyLayout(selected) THEN [ret |-> <<>>, via |-> "no_layout"]
        ELSE IF sk.exc # "" THEN failed
        ELSE IF tree.parameters = <<>>
             THEN [ret |-> sk.forecasts, via |-> "no_parameters"]
        ELSE IF t.exc # "" \/ h.exc # "" \/ w.exc # "" THEN failed
        ELSE IF c.exc # "" \/ pr.exc # "" \/ cl.exc # "" THEN failed
        ELSE [ret |-> cl.forecasts, via |-> "normal"]

(***************************************************************************)
(* The documents of the model.                                             *)
(***************************************************************************)
HourlyKey == "k-p1h-n1-1"
DailyKey == "k-p24h-n1-2"

\* n consecutive hours, the first at 18:00 of day 0
Times(n) == [i \in 1..n |-> IsoText((17 + i) \div 24, (17 + i) % 24)]

WithBad(times, bad, text) ==
    [i \in 1..Len(times) |-> IF i \in bad THEN text ELSE times[i]]

Layout(key, times) == [key |-> key, times |-> times]

Series(layout, type, units, values) ==
    [layout |-> layout, type |-> type, units |-> units, values |-> values]

Weather(layout, conditions) == [layout |-> layout, conditions |-> conditions]

NoParameters ==
    [temperature |-> <<>>, humidity |-> <<>>, wind_speed |-> <<>>,
     direction |-> <<>>, weather |-> <<>>, pop |-> <<>>, cloud |-> <<>>]

Tree(layouts, parameters) ==
    [wellFormed |-> TRUE, layouts |-> layouts, parameters |-> parameters]

\* a text that ElementTree.fromstring rejects, e.g. an unclosed tag
Malformed == [wellFormed |-> FALSE, layouts |-> <<>>, parameters |-> <<>>]

\* texts of value cells
Empty == <<>>
T72 == <<"7", "2">>
T74 == <<"7", "4">>
T55 == <<"5", "5">>
T60 == <<"6", "0">>
T58 == <<"5", "8">>
Minus5 == <<"-", "5">>
NotANumber == <<"N", "/", "A">>
T270 == <<"2", "7", "0">>
NW == <<"N", "W">>

\* the decimal text of a number below 100
Text2(n) == <<DigitChars[(n \div 10) + 1], DigitChars[(n % 10) + 1]>>

\* a series of n numeric cells
Long(n) == [i \in 1..n |-> Text2(40 + i)]

\* every sequence of at most n cells over an alphabet
CellSeqs(alphabet, n) == UNION {[1..k -> alphabet] : k \in 0..n}

MainLayout == Layout(<<HourlyKey>>, Times(HourlyThreshold + 1))

LayoutLists ==
    {<<>>,
     <<Layout(<<HourlyKey>>, Times(3))>>,
     <<Layout(<<HourlyKey>>, Times(HourlyThreshold))>>,
     <<Layout(<<DailyKey>>, Times(3)), MainLayout>>,
     <<Layout(<<>>, Times(HourlyThreshold + 1)),
       Layout(<<HourlyKey>>, Times(HourlyThreshold + 2))>>,
     <<Layout(<<"">>, Times(HourlyThreshold + 1)),
       Layout(<<HourlyKey>>, Times(HourlyThreshold + 2))>>,
     <<MainLayout, Layout(<<DailyKey>>, Times(HourlyThreshold + 2))>>,
     <<Layout(<<DailyKey>>, Times(HourlyThreshold + 2)), MainLayout>>,
     <<Layout(<<HourlyKey>>,
              WithBad(Times(HourlyThreshold + 1), 1..(HourlyThreshold + 1),
                      GarbageText))>>}
    \cup {<<Layout(<<HourlyKey>>, Times(n))>> :
            n \in (HourlyThreshold + 1)..(HourlyThreshold + MaxExtra)}
    \cup {<<Layout(<<HourlyKey>>, WithBad(Times(HourlyThreshold + 1), bad, text))>> :
            bad \in {{2}, {1, 3}}, text \in {GarbageText, NoText}}

\* the parameters elements with one element each of a few kinds
TemperatureBlocks ==
    {[NoParameters EXCEPT !.temperature = <<Series(<<HourlyKey>>, type, units, values)>>] :
        type \in {<<"hourly">>}, units \in {<<>>},
        values \in CellSeqs({Empty, T72, NotANumber}, MaxCells)}

HumidityBlocks ==
    {[NoParameters EXCEPT !.humidity = <<Series(<<key>>, <<>>, units, values)>>] :
        key \in {HourlyKey, DailyKey}, units \in {<<>>, <<"%">>},
        values \in CellSeqs({Empty, T55, NotANumber}, MaxCells)}

\* the parameters elements with several series of one kind
MixedBlocks ==
    {[NoParameters EXCEPT
        !.temperature = <<Series(<<DailyKey>>, <<"maximum">>, <<>>, <<NotANumber, T74>>),
                          Series(<<HourlyKey>>, <<"hourly">>, <<>>, <<T72, T74>>)>>],
     [NoParameters EXCEPT
        !.temperature = <<Series(<<HourlyKey>>, <<"Hourly">>, <<"Celsius">>, <<T72>>),
                          Series(<<HourlyKey>>, <<"hourly">>, <<>>, <<T74, T74>>)>>],
     [NoParameters EXCEPT
        !.temperature = <<Series(<<HourlyKey>>, <<"maximum">>, <<>>, <<T74, Minus5>>),
                          Series(<<>>, <<>>, <<>>, <<NotANumber>>),
                          Series(<<HourlyKey>>, <<>>, <<>>, <<Empty, T72>>)>>],
     [NoParameters EXCEPT
        !.temperature = <<Series(<<HourlyKey>>, <<"hourly">>, <<>>, <<T72, T74>>)>>,
        !.humidity = <<Series(<<HourlyKey>>, <<>>, <<>>, <<T55, T60, T58>>)>>],
     [NoParameters EXCEPT
        !.humidity = <<Series(<<DailyKey>>, <<>>, <<>>, <<NotANumber>>),
                       Series(<<HourlyKey>>, <<>>, <<>>, <<T55, T60>>),
                       Series(<<HourlyKey>>, <<>>, <<"%">>, <<T58>>)>>],
     [NoParameters EXCEPT
        !.wind_speed = <<Series(<<HourlyKey>>, <<>>, <<>>, <<T55, Empty, T58>>)>>,
        !.direction = <<Series(<<HourlyKey>>, <<>>, <<>>, <<T270, NW, Empty, NW>>)>>],
     [NoParameters EXCEPT
        !.wind_speed = <<Series(<<HourlyKey>>, <<>>, <<"mph">>, <<NotANumber>>)>>,
        !.direction = <<Series(<<HourlyKey>>, <<>>, <<>>, <<T270>>)>>],
     [NoParameters EXCEPT
        !.wind_speed = <<Series(<<DailyKey>>, <<>>, <<>>, <<NotANumber>>)>>,
        !.direction = <<Series(<<DailyKey>>, <<>>, <<>>, <<NW>>),
                        Series(<<HourlyKey>>, <<>>, <<"deg">>, <<Minus5, T270>>)>>,
        !.weather = <<Weather(<<DailyKey>>, <<<<"Sunny">>>>)>>,
        !.pop = <<Series(<<DailyKey>>, <<>>, <<>>, <<NotANumber>>)>>,
        !.cloud = <<Series(<<DailyKey>>, <<>>, <<>>, <<NotANumber>>)>>],
     [NoParameters EXCEPT
        !.weather = <<Weather(<<HourlyKey>>, <<<<"Sunny">>, <<>>, <<"Rain">>>>)>>,
        !.pop = <<Series(<<HourlyKey>>, <<>>, <<>>, <<T55, NotANumber>>)>>,
        !.cloud = <<Series(<<HourlyKey>>, <<>>, <<>>, <<T60>>)>>],
     [NoParameters EXCEPT
        !.pop = <<Series(<<HourlyKey>>, <<>>, <<>>, <<T55>>)>>,
        !.cloud = <<Series(<<HourlyKey>>, <<>>, <<"okta">>, <<T60, NotANumber>>)>>],
     [NoParameters EXCEPT
        !.wind_speed = <<Series(<<HourlyKey>>, <<>>, <<"mph">>, <<T55, T60>>)>>,
        !.direction = <<Series(<<HourlyKey>>, <<>>, <<>>, <<NW, T270>>)>>,
        !.weather = <<Weather(<<HourlyKey>>, <<<<"Sunny">>, <<>>, <<"Rain">>>>)>>,
        !.pop = <<Series(<<HourlyKey>>, <<>>, <<"pct">>, <<T55>>)>>,
        !.cloud = <<Series(<<HourlyKey>>, <<>>, <<>>, <<T60, Empty, T58>>)>>]}

\* the parameters elements whose series are as long as a layout, or longer
FullBlocks ==
    {[temperature |-> <<Series(<<HourlyKey>>, <<"hourly">>, <<>>, Long(n))>>,
      humidity |-> <<Series(<<HourlyKey>>, <<>>, <<>>, Long(n))>>,
      wind_speed |-> <<Series(<<HourlyKey>>, <<>>, <<>>, Long(n))>>,
      direction |-> <<Series(<<HourlyKey>>, <<>>, <<>>, Long(n))>>,
      weather |-> <<Weather(<<HourlyKey>>, [i \in 1..n |-> <<"Sunny">>])>>,
      pop |-> <<Series(<<HourlyKey>>, <<>>, <<>>, Long(n))>>,
      cloud |-> <<Series(<<HourlyKey>>, <<>>, <<>>,
                         [i \in 1..n |-> IF i = n THEN NotANumber ELSE T60])>>] :
        n \in (HourlyThreshold + 1)..(HourlyThreshold + MaxExtra)}

Blocks == TemperatureBlocks \cup HumidityBlocks \cup MixedBlocks \cup FullBlocks

\* the texts the weather service may answer with
Documents ==
    {Malformed}
    \cup {Tree(layouts, <<>>) : layouts \in LayoutLists}
    \cup {Tree(layouts, <<block>>) : layouts \in LayoutLists, block \in MixedBlocks \cup FullBlocks}
    \cup {Tree(<<MainLayout>>, <<block>>) : block \in Blocks}
    \cup {Tree(<<MainLayout>>, <<NoParameters, block>>) : block \in FullBlocks}

(***************************************************************************)
(* State.  One call of the tool get_hourly_weather_forecast, and the       *)
(* parser instances with the calls of parse_hourly_forecast on them.       *)
(***************************************************************************)
VARIABLES
    latitude, longitude, hours, \* the arguments of the tool call
    pc,             \* where the tool call stands
    err,            \* the message of the ValueError the tool call raised
    fetches,        \* the number of client.get calls made
    response,       \* the fetched text (a sequence of length 0 or 1)
    output,         \* the result the tool call returned (length 0 or 1)
    root,           \* per parser: self.root (length 0 or 1)
    ppc,            \* per parser: where its parse_hourly_forecast call stands
    hourly_times,   \* per call frame: the local hourly_times
    hourly_layout_key, \* per call frame: the local hourly_layout_key
    forecasts,      \* per call frame: the local forecasts
    ret,            \* per parser: what the last call returned
    via,            \* per parser: how the last call ended
    returns,        \* per parser: everything its calls returned, in order
    runs,           \* the number of calls of run_weather_forecast made
    mpc,            \* where the run_weather_forecast call stands
    adapter_calls,  \* the calls made on the MCPServerAdapter, with their outcomes
    raising,        \* the exception in flight in run_weather_forecast ("" for none)
    failed,         \* the statement of the with body that raised ("" for none)
    result,         \* the local `result` of run_weather_forecast (length 0 or 1)
    outcome         \* how the run_weather_forecast call ended, and with what

toolVars == <<latitude, longitude, hours, pc, err, fetches, response, output>>
parserVars == <<root, ppc, hourly_times, hourly_layout_key, forecasts, ret, via, returns>>
mainVars == <<runs, mpc, adapter_calls, raising, failed, result, outcome>>
vars == <<toolVars, parserVars, mainVars>>

Parsers == {1, 2}

\* mutant of Frame: the locals are kept in one place for all calls
SharedFrame(p) == 1

\* the locals of a parse_hourly_forecast call belong to that call
Frame(p) == p

Latitudes == {MinLatitude - 1, MinLatitude, MaxLatitude, MaxLatitude + 1}
Longitudes == {MinLongitude - 1, MaxLongitude, MaxLongitude + 1}
HoursValues ==
    {MinHours - 1, MinHours, 3, HourlyThreshold + 1, MaxHours, MaxHours + 1}

ParserInit ==
    /\ hourly_times = [p \in Parsers |-> <<>>]
    /\ hourly_layout_key = [p \in Parsers |-> ""]
    /\ forecasts = [p \in Parsers |-> <<>>]
    /\ ret = [p \in Parsers |-> <<>>]
    /\ via = [p \in Parsers |-> ""]
    /\ returns = [p \in Parsers |-> <<>>]

\* run_weather_forecast is not being called
MainIdle ==
    /\ runs = 0
    /\ mpc = "idle"
    /\ adapter_calls = <<>>
    /\ raising = ""
    /\ failed = ""
    /\ result = <<>>
    /\ outcome = [how |-> "running", value |-> ""]

Init ==
    /\ latitude \in Latitudes
    /\ longitude \in Longitudes
    /\ hours \in HoursValues
    /\ pc = "check_latitude"
    /\ err = ""
    /\ fetches = 0
    /\ response = <<>>
    /\ output = <<>>
    /\ root = [p \in Parsers |-> <<>>]
    /\ ppc = [p \in Parsers |-> "none"]
    /\ ParserInit
    /\ MainIdle

(***************************************************************************)
(* get_hourly_weather_forecast                                             *)
(***************************************************************************)
LatitudeOk(lat) == MinLatitude <= lat /\ lat <= MaxLatitude
LongitudeOk(lon) == MinLongitude <= lon /\ lon <= MaxLongitude
\* mutant of HoursOk: no upper limit
HoursOkNoMax(h) == MinHours <= h

HoursOk(h) == MinHours <= h /\ h <= MaxHours

Raise(message) ==
    /\ pc' = "raised"
    /\ err' = message
    /\ UNCHANGED <<mainVars, latitude, longitude, hours, fetches, response, output, parserVars>>

Goto(label) ==
    /\ pc' = label
    /\ UNCHANGED <<mainVars, latitude, longitude, hours, err, fetches, response, output,
                   parserVars>>

CheckLatitude ==
    /\ pc = "check_latitude"
    /\ \/ ~LatitudeOk(latitude) /\ Raise("Latitude must be between -90 and 90")
       \/ LatitudeOk(latitude) /\ Goto("check_longitude")

CheckLongitude ==
    /\ pc = "check_longitude"
    /\ \/ ~LongitudeOk(longitude) /\ Raise("Longitude must be between -180 and 180")
       \/ LongitudeOk(longitude) /\ Goto("check_hours")

CheckHours ==
    /\ pc = "check_hours"
    /\ \/ ~HoursOk(hours) /\ Raise("Hours must be between 1 and 168")
       \/ HoursOk(hours) /\ Goto("fetch")

\* client.get(url) and response.raise_for_status()
Fetch ==
    /\ pc = "fetch"
    /\ fetches' = fetches + 1
    /\ \/ /\ pc' = "raised"
          /\ err' = "Weather service request timed out"
          /\ UNCHANGED response
       \/ /\ pc' = "raised"
          /\ err' = "Weather service returned error"
          /\ UNCHANGED response
       \/ /\ \E text \in Documents : response' = <<text>>
          /\ pc' = "construct"
          /\ UNCHANGED err
    /\ UNCHANGED <<mainVars, latitude, longitude, hours, output, parserVars>>

\* mutant of FromString: a malformed text gives a tree
FromStringLenient(text) == [exc |-> "", tree |-> <<text>>]

\* ElementTree.fromstring raises ParseError on a text that is not well formed
FromString(text) ==
    IF text.wellFormed THEN [exc |-> "", tree |-> <<text>>]
    ELSE [exc |-> "ParseError", tree |-> <<>>]

\* WeatherDWMLParser(response.text) and the call of parse_hourly_forecast
Construct ==
    /\ pc = "construct"
    /\ LET made == FromString(response[1])
       IN  \/ /\ made.exc # ""
              /\ pc' = "raised"
              /\ err' = "Failed to fetch weather data"
              /\ UNCHANGED parserVars
           \/ /\ made.exc = ""
              /\ root' = [root EXCEPT ![1] = made.tree]
              /\ ppc' = [ppc EXCEPT ![1] = "select"]
              /\ pc' = "parse"
              /\ UNCHANGED <<err, hourly_times, hourly_layout_key, forecasts,
                             ret, via, returns>>
    /\ UNCHANGED <<mainVars, latitude, longitude, hours, fetches, response, output>>

\* mutant of Truncate: the slice is one record short
TruncateShort(list, n) ==
    IF list # <<>> THEN SubSeq(list, 1, Min(n - 1, Len(list))) ELSE list

\* forecasts[:hours] when forecasts is not empty
Truncate(list, n) == IF list # <<>> THEN SubSeq(list, 1, Min(n, Len(list))) ELSE list

\* the result, without its generated_at clock reading
Result(lat, lon, h, list) ==
    [location |-> [latitude |-> lat, longitude |-> lon],
     forecast_hours |-> Len(list),
     requested_hours |-> h,
     hourly_forecasts |-> list,
     source |-> "National Weather Service DWML"]

Return ==
    /\ pc = "parse"
    /\ ppc[1] = "returned"
    /\ output' = <<Result(latitude, longitude, hours, Truncate(ret[1], hours))>>
    /\ pc' = "returned"
    /\ UNCHANGED <<mainVars, latitude, longitude, hours, err, fetches, response, parserVars>>

(***************************************************************************)
(* WeatherDWMLParser.parse_hourly_forecast, a step per helper              *)
(***************************************************************************)
\* `return list`, reached in the way `how`
Returns(p, list, how) ==
    /\ ret' = [ret EXCEPT ![p] = list]
    /\ via' = [via EXCEPT ![p] = how]
    /\ returns' = [returns EXCEPT ![p] = Append(@, list)]
    /\ ppc' = [ppc EXCEPT ![p] = "returned"]

\* the handlers `except ET.ParseError` and `except Exception`: return []
Except(p) == Returns(p, <<>>, "except")

SelectStep(p) ==
    /\ ppc[p] = "select"
    /\ LET selected == SelectLayout(root[p][1].layouts)
       IN  \/ /\ NoHourlyLayout(selected)
              /\ Returns(p, <<>>, "no_layout")
              /\ UNCHANGED <<hourly_times, hourly_layout_key>>
           \/ /\ ~NoHourlyLayout(selected)
              /\ hourly_times' = [hourly_times EXCEPT ![Frame(p)] = selected[1].times]
              /\ hourly_layout_key' =
                    [hourly_layout_key EXCEPT ![Frame(p)] = selected[1].key[1]]
              /\ ppc' = [ppc EXCEPT ![p] = "skeleton"]
              /\ UNCHANGED <<ret, via, returns>>
    /\ UNCHANGED <<mainVars, toolVars, root, forecasts>>

SkeletonStep(p) ==
    /\ ppc[p] = "skeleton"
    /\ LET sk == Skeleton(hourly_times[Frame(p)])
       IN  \/ /\ sk.exc # ""
              /\ Except(p)
              /\ UNCHANGED forecasts
           \/ /\ sk.exc = ""
              /\ forecasts' = [forecasts EXCEPT ![Frame(p)] = sk.forecasts]
              /\ ppc' = [ppc EXCEPT ![p] = "parameters"]
              /\ UNCHANGED <<ret, via, returns>>
    /\ UNCHANGED <<mainVars, toolVars, root, hourly_times, hourly_layout_key>>

\* self.root.find('.//parameters'): the first parameters element
ParametersStep(p) ==
    /\ ppc[p] = "parameters"
    /\ \/ /\ root[p][1].parameters = <<>>
          /\ Returns(p, forecasts[Frame(p)], "no_parameters")
       \/ /\ root[p][1].parameters # <<>>
          /\ ppc' = [ppc EXCEPT ![p] = "temperature"]
          /\ UNCHANGED <<ret, via, returns>>
    /\ UNCHANGED <<mainVars, toolVars, root, hourly_times, hourly_layout_key, forecasts>>

\* a helper ran with the outcome `merged`: its exception reaches the handler,
\* otherwise the call goes on at `next`
HelperStep(p, stage, merged, next) ==
    /\ ppc[p] = stage
    /\ \/ /\ merged.exc # ""
          /\ forecasts' = [forecasts EXCEPT ![Frame(p)] = merged.forecasts]
          /\ Except(p)
       \/ /\ merged.exc = ""
          /\ forecasts' = [forecasts EXCEPT ![Frame(p)] = merged.forecasts]
          /\ ppc' = [ppc EXCEPT ![p] = next]
          /\ UNCHANGED <<ret, via, returns>>
    /\ UNCHANGED <<mainVars, toolVars, root, hourly_times, hourly_layout_key>>

TemperatureStep(p) ==
    HelperStep(p, "temperature",
               ParseTemperature(root[p][1].parameters[1].temperature,
                                hourly_layout_key[Frame(p)], forecasts[Frame(p)]),
               "humidity")

HumidityStep(p) ==
    HelperStep(p, "humidity",
               ParseHumidity(root[p][1].parameters[1].humidity,
                             hourly_layout_key[Frame(p)], forecasts[Frame(p)]),
               "wind")

WindStep(p) ==
    HelperStep(p, "wind",
               ParseWind(root[p][1].parameters[1],
                         hourly_layout_key[Frame(p)], forecasts[Frame(p)]),
               "weather")

\* _parse_weather_conditions converts nothing and raises nothing
WeatherStep(p) ==
    /\ ppc[p] = "weather"
    /\ forecasts' = [forecasts EXCEPT ![Frame(p)] =
            ParseWeather(root[p][1].parameters[1].weather,
                         hourly_layout_key[Frame(p)], forecasts[Frame(p)]).forecasts]
    /\ ppc' = [ppc EXCEPT ![p] = "precipitation"]
    /\ UNCHANGED <<mainVars, toolVars, root, hourly_times, hourly_layout_key, ret, via, returns>>

PrecipitationStep(p) ==
    HelperStep(p, "precipitation",
               ParsePrecipitation(root[p][1].parameters[1].pop,
                                  hourly_layout_key[Frame(p)], forecasts[Frame(p)]),
               "cloud")

\* the last helper, and `return forecasts`
CloudStep(p) ==
    /\ ppc[p] = "cloud"
    /\ LET merged == ParseCloudCover(root[p][1].parameters[1].cloud,
                                     hourly_layout_key[Frame(p)], forecasts[Frame(p)])
       IN  /\ forecasts' = [forecasts EXCEPT ![Frame(p)] = merged.forecasts]
           /\ \/ merged.exc # "" /\ Except(p)
              \/ merged.exc = "" /\ Returns(p, merged.forecasts, "normal")
    /\ UNCHANGED <<mainVars, toolVars, root, hourly_times, hourly_layout_key>>

ParseStep(p) ==
    \/ SelectStep(p)
    \/ SkeletonStep(p)
    \/ ParametersStep(p)
    \/ TemperatureStep(p)
    \/ HumidityStep(p)
    \/ WindStep(p)
    \/ WeatherStep(p)
    \/ PrecipitationStep(p)
    \/ CloudStep(p)

Next ==
    \/ CheckLatitude
    \/ CheckLongitude
    \/ CheckHours
    \/ Fetch
    \/ Construct
    \/ ParseStep(1)
    \/ Return

Spec == Init /\ [][Next]_vars

(***************************************************************************)
(* Parser instances used side by side: every instance is constructed on a  *)
(* text of its own and parse_hourly_forecast is called on it, repeatedly,  *)
(* the steps of the calls interleaving in any order.                       *)
(***************************************************************************)
ConcurrentTrees ==
    {Tree(layouts, <<block>>) :
        layouts \in {<<MainLayout>>,
                     <<Layout(<<HourlyKey>>,
                              WithBad(Times(HourlyThreshold + 2), {2}, GarbageText))>>},
        block \in {b \in MixedBlocks :
                     \/ b.humidity # <<>>
                     \/ (b.weather # <<>> /\ b.pop # <<>> /\ b.cloud # <<>>
                         /\ b.wind_speed = <<>>)}}

InitConcurrent ==
    /\ latitude = 0
    /\ longitude = 0
    /\ hours = MinHours
    /\ pc = "idle"
    /\ err = ""
    /\ fetches = 0
    /\ response = <<>>
    /\ output = <<>>
    /\ root \in [Parsers -> {<<tree>> : tree \in ConcurrentTrees}]
    /\ ppc = [p \in Parsers |-> "select"]
    /\ ParserInit
    /\ MainIdle

\* one more call of parse_hourly_forecast on the same instance
ParseAgain(p) ==
    /\ ppc[p] = "returned"
    /\ Len(returns[p]) < MaxParses
    /\ ppc' = [ppc EXCEPT ![p] = "select"]
    /\ UNCHANGED <<mainVars, toolVars, root, hourly_times, hourly_layout_key, forecasts,
                   ret, via, returns>>

NextConcurrent == \E p \in Parsers : ParseStep(p) \/ ParseAgain(p)

SpecConcurrent == InitConcurrent /\ [][NextConcurrent]_vars

(***************************************************************************)
(* main.py: run_weather_forecast.  The MCPServerAdapter, the crewai        *)
(* classes and crew.kickoff belong to libraries: each of their calls       *)
(* either returns or raises, an Exception or a BaseException that is not   *)
(* one (KeyboardInterrupt, SystemExit).  The with statement and the try    *)
(* statement act as the language defines them.                             *)
(***************************************************************************)
\* the classes of the exceptions a library call may raise
Raised == {"Exception", "BaseException"}

\* what adapter.__exit__ may do: return a false or a true value, or raise
ExitOutcomes == {"False", "True"} \cup Raised

\* the values crew.kickoff() may return
CrewResults == {"summary-1", "summary-2"}

\* no call of run_weather_forecast was made yet
InitMain ==
    /\ latitude = 0
    /\ longitude = 0
    /\ hours = MinHours
    /\ pc = "idle"
    /\ err = ""
    /\ fetches = 0
    /\ response = <<>>
    /\ output = <<>>
    /\ root = [p \in Parsers |-> <<>>]
    /\ ppc = [p \in Parsers |-> "none"]
    /\ ParserInit
    /\ MainIdle

\* a caller (the script, one of the example functions) calls
\* run_weather_forecast: the locals are fresh, no adapter exists yet
Call ==
    /\ mpc \in {"idle", "done"}
    /\ runs < MaxRuns
    /\ runs' = runs + 1
    /\ mpc' = "check_path"
    /\ adapter_calls' = <<>>
    /\ raising' = ""
    /\ failed' = ""
    /\ result' = <<>>
    /\ outcome' = [how |-> "running", value |-> ""]
    /\ UNCHANGED <<toolVars, parserVars>>

\* mutant of Leaves: the try statement has no handler
LeavesUncaught(kind) == "propagate"

\* where an exception that leaves the try body goes: `except Exception`
\* takes the instances of Exception, any other one leaves the function
Leaves(kind) == IF kind = "Exception" THEN "handler" ELSE "propagate"

Called(method, how) == Append(adapter_calls, [method |-> method, outcome |-> how])

\* if not weather_server_path.exists(): raise FileNotFoundError(...)
CheckPath ==
    /\ mpc = "check_path"
    /\ \/ /\ mpc' = "server_params"
          /\ UNCHANGED <<raising, failed>>
       \/ /\ raising' = "Exception"
          /\ failed' = "check_path"
          /\ mpc' = Leaves("Exception")
    /\ UNCHANGED <<toolVars, parserVars, runs, adapter_calls, result, outcome>>

\* the three StdioServerParameters
ServerParams ==
    /\ mpc = "server_params"
    /\ mpc' = "create"
    /\ UNCHANGED <<toolVars, parserVars, runs, adapter_calls, raising, failed, result, outcome>>

\* MCPServerAdapter([...]): the context expression of the with statement
CreateAdapter ==
    /\ mpc = "create"
    /\ \/ /\ adapter_calls' = Called("__init__", "ok")
          /\ mpc' = "enter"
          /\ UNCHANGED raising
       \/ \E kind \in Raised :
             /\ adapter_calls' = Called("__init__", kind)
             /\ raising' = kind
             /\ mpc' = Leaves(kind)
    /\ UNCHANGED <<toolVars, parserVars, runs, failed, result, outcome>>

\* the with statement calls __enter__; when it raises, __exit__ is not called
Enter ==
    /\ mpc = "enter"
    /\ \/ /\ adapter_calls' = Called("__enter__", "ok")
          /\ mpc' = "tools"
          /\ UNCHANGED raising
       \/ \E kind \in Raised :
             /\ adapter_calls' = Called("__enter__", kind)
             /\ raising' = kind
             /\ mpc' = Leaves(kind)
    /\ UNCHANGED <<toolVars, parserVars, runs, failed, result, outcome>>

\* a statement of the with body: it completes, or it raises and the with
\* statement calls __exit__ with the exception
BodyStep(here, next) ==
    /\ mpc = here
    /\ \/ /\ mpc' = next
          /\ UNCHANGED <<raising, failed>>
       \/ \E kind \in Raised :
             /\ raising' = kind
             /\ failed' = here
             /\ mpc' = "exit"
    /\ UNCHANGED <<toolVars, parserVars, runs, adapter_calls, result, outcome>>

\* print(f"Available tools: ...")
PrintTools == BodyStep("tools", "agent")

\* meteorologist = Agent(...)
CreateAgent == BodyStep("agent", "task")

\* forecast_task = Task(...)
CreateTask == BodyStep("task", "crew")

\* crew = Crew(...) and the print before the kickoff
CreateCrew == BodyStep("crew", "kickoff")

\* result = crew.kickoff()
Kickoff ==
    /\ mpc = "kickoff"
    /\ \/ \E r \in CrewResults :
             /\ result' = <<r>>
             /\ mpc' = "return"
             /\ UNCHANGED <<raising, failed>>
       \/ \E kind \in Raised :
             /\ raising' = kind
             /\ failed' = "kickoff"
             /\ mpc' = "exit"
             /\ UNCHANGED result
    /\ UNCHANGED <<toolVars, parserVars, runs, adapter_calls, outcome>>

\* return result: the value is kept while the with statement is left
ReturnResult ==
    /\ mpc = "return"
    /\ mpc' = "exit"
    /\ UNCHANGED <<toolVars, parserVars, runs, adapter_calls, raising, failed, result, outcome>>

\* the with statement calls __exit__: an exception it raises replaces what
\* was going on; otherwise the pending return completes, or the exception of
\* the body goes on unless __exit__ returned a true value
Exit ==
    /\ mpc = "exit"
    /\ \E o \in ExitOutcomes :
          /\ adapter_calls' = Called("__exit__", o)
          /\ IF o \in Raised
             THEN /\ raising' = o
                  /\ mpc' = Leaves(o)
                  /\ UNCHANGED outcome
             ELSE IF raising = ""
             THEN /\ outcome' = [how |-> "returned", value |-> result[1]]
                  /\ mpc' = "done"
                  /\ UNCHANGED raising
             ELSE IF o = "True"
             THEN /\ raising' = ""
                  /\ mpc' = "end"
                  /\ UNCHANGED outcome
             ELSE /\ mpc' = Leaves(raising)
                  /\ UNCHANGED <<raising, outcome>>
    /\ UNCHANGED <<toolVars, parserVars, runs, failed, result>>

\* the end of the try statement is reached without a return statement: the
\* function returns None
EndOfFunction ==
    /\ mpc = "end"
    /\ mpc' = "done"
    /\ outcome' = [how |-> "returned", value |-> "None"]
    /\ UNCHANGED <<toolVars, parserVars, runs, adapter_calls, raising, failed, result>>

\* except Exception as e: ... return None
Handler ==
    /\ mpc = "handler"
    /\ mpc' = "done"
    /\ raising' = ""
    /\ outcome' = [how |-> "returned", value |-> "None"]
    /\ UNCHANGED <<toolVars, parserVars, runs, adapter_calls, failed, result>>

\* an exception that no handler takes leaves run_weather_forecast
Propagate ==
    /\ mpc = "propagate"
    /\ mpc' = "done"
    /\ outcome' = [how |-> "raised", value |-> raising]
    /\ UNCHANGED <<toolVars, parserVars, runs, adapter_calls, raising, failed, result>>

NextMain ==
    \/ Call
    \/ CheckPath
    \/ ServerParams
    \/ CreateAdapter
    \/ Enter
    \/ PrintTools
    \/ CreateAgent
    \/ CreateTask
    \/ CreateCrew
    \/ Kickoff
    \/ ReturnResult
    \/ Exit
    \/ EndOfFunction
    \/ Handler
    \/ Propagate

SpecMain == InitMain /\ [][NextMain]_vars

(***************************************************************************)
(* Properties.  The helpers below describe the document as the             *)
(* specification of the aligner reads it; they take nothing from the       *)
(* state of a call.                                                        *)
(***************************************************************************)
\* the first time layout with a layout-key child and more than 24 timestamps
RECURSIVE FirstHourly(_)
FirstHourly(layouts) ==
    IF layouts = <<>> THEN <<>>
    ELSE IF Head(layouts).key # <<>> /\ Len(Head(layouts).times) >= 25
         THEN <<Head(layouts)>>
    ELSE FirstHourly(Tail(layouts))

\* the document has a selected hourly layout, with a key
HasHourly(tree) ==
    IF FirstHourly(tree.layouts) = <<>> THEN FALSE
    ELSE FirstHourly(tree.layouts)[1].key[1] # ""

HourlyOf(tree) == FirstHourly(tree.layouts)[1]

KeyOf(tree) == HourlyOf(tree).key[1]

\* the timestamp is an ISO instant
Parseable(ts) == ts.form = "iso"

\* the instants of the timestamps that parse, in layout order
RECURSIVE Instants(_)
Instants(times) ==
    IF times = <<>> THEN <<>>
    ELSE IF Parseable(Head(times))
         THEN <<[day |-> Head(times).day, hour |-> Head(times).hour,
                 minute |-> 0, second |-> 0]>> \o Instants(Tail(times))
    ELSE Instants(Tail(times))

NumParseable(times) == Cardinality({i \in 1..Len(times) : Parseable(times[i])})

\* the calls of parse_hourly_forecast that have returned
Returned(p) == ppc[p] = "returned" /\ root[p] # <<>>

\* the parameters element the parser reads
FirstParameters(tree) ==
    IF tree.parameters = <<>> THEN NoParameters ELSE tree.parameters[1]

\* the series of a tag that reference the layout key
Referencing(elems, key) == {i \in 1..Len(elems) : elems[i].layout = <<key>>}

\* C1: for every well-formed document whose selected hourly layout has more
\* than 24 timestamps, parse_hourly_forecast returns as many records as the
\* layout has timestamps that parse as ISO instants
C1_LengthIsParseableCount ==
    \A p \in Parsers :
        (Returned(p) /\ HasHourly(root[p][1]))
            => Len(ret[p]) = NumParseable(HourlyOf(root[p][1]).times)

\* the elements of a tag without those that reference another layout
Keep(elems, key) == SelectSeq(elems, LAMBDA e : e.layout = <<key>>)

\* the document without the series that reference another layout than the
\* selected one
Strip(tree) ==
    IF tree.parameters = <<>> THEN tree
    ELSE [tree EXCEPT !.parameters[1] =
            [temperature |-> Keep(@.temperature, KeyOf(tree)),
             humidity |-> Keep(@.humidity, KeyOf(tree)),
             wind_speed |-> Keep(@.wind_speed, KeyOf(tree)),
             direction |-> Keep(@.direction, KeyOf(tree)),
             weather |-> Keep(@.weather, KeyOf(tree)),
             pop |-> Keep(@.pop, KeyOf(tree)),
             cloud |-> Keep(@.cloud, KeyOf(tree))]]

\* the keys of the temperature series that reference the layout key
TemperatureKeys(temps, key) ==
    {"temperature_" \o Lower(Get(temps[i].type, "unknown")) :
        i \in Referencing(temps, key)}

\* the keys a record may carry, given the series that reference the layout
AllowedKeys(tree) ==
    LET par == FirstParameters(tree)
        key == KeyOf(tree)
    IN  {"valid_time", "datetime_readable"}
        \cup TemperatureKeys(par.temperature, key)
        \cup (IF Referencing(par.humidity, key) # {} THEN {"humidity"} ELSE {})
        \cup (IF Referencing(par.wind_speed, key) \cup Referencing(par.direction, key) # {}
              THEN {"wind"} ELSE {})
        \cup (IF Referencing(par.weather, key) # {} THEN {"weather_conditions"} ELSE {})
        \cup (IF Referencing(par.pop, key) # {}
              THEN {"precipitation_probability"} ELSE {})
        \cup (IF Referencing(par.cloud, key) # {} THEN {"cloud_cover"} ELSE {})

\* C2: a series whose time-layout attribute differs from the selected hourly
\* key adds no key to any record and changes no record: the returned list is
\* the one of the document without these series, and a record carries only
\* keys of series that reference the selected layout
C2_OtherLayoutContributesNothing ==
    \A p \in Parsers :
        (Returned(p) /\ HasHourly(root[p][1])) =>
            /\ ret[p] = ParseHourlyForecast(Strip(root[p][1])).ret
            /\ \A i \in 1..Len(ret[p]) : DOMAIN ret[p][i] \subseteq AllowedKeys(root[p][1])

\* C2 witness: a temperature series of type "maximum" on the daily layout,
\* with a non-numeric cell, left no key while the "hourly" series was merged
C2_Witness ==
    /\ Returned(1) /\ via[1] = "normal" /\ ret[1] # <<>>
    /\ \E i \in 1..Len(root[1][1].parameters[1].temperature) :
          LET t == root[1][1].parameters[1].temperature[i]
          IN  /\ t.layout = <<DailyKey>> /\ t.type = <<"maximum">>
              /\ \E c \in 1..Len(t.values) : t.values[c] = NotANumber
    /\ Has(ret[1][1], "temperature_hourly")
    /\ ~Has(ret[1][1], "temperature_maximum")

\* positional alignment of one series with the records of a list: the cells
\* beyond the series leave the key out, a numeric cell is carried by the
\* record of its own index with the unit
Aligned(list, n, values, key, units) ==
    \A i \in 1..n :
        /\ (i > Len(values) /\ i <= Len(list)) => ~Has(list[i], key)
        /\ (i <= Len(values) /\ FloatOk(values[i])) =>
              /\ i <= Len(list)
              /\ Has(list[i], key)
              /\ list[i][key] = [value |-> Float(values[i]), units |-> units]

\* the only series of a tag that references the layout key, when it is
\* shorter than n, is aligned with the list
SoleAligned(list, n, elems, layout_key, key, default_units) ==
    \A j \in Referencing(elems, layout_key) :
        (Referencing(elems, layout_key) = {j} /\ Len(elems[j].values) < n)
            => Aligned(list, n, elems[j].values, key, Get(elems[j].units, default_units))

\* the key of a temperature series
TemperatureKey(temp) == "temperature_" \o Lower(Get(temp.type, "unknown"))

\* C3: for a skeleton of N records and a matching series of M < N cells (the
\* only matching one of its key), every record at index >= M lacks the key
\* and every record at index < M with a numeric cell carries that value
\* with the declared or default unit
C3_PositionalAlignment ==
    \A p \in Parsers :
        (/\ Returned(p)
         /\ HasHourly(root[p][1])
         /\ \A i \in 1..Len(HourlyOf(root[p][1]).times) :
                HourlyOf(root[p][1]).times[i].form # "none") =>
            LET tree == root[p][1]
                par == FirstParameters(tree)
                n == NumParseable(HourlyOf(tree).times)
            IN  /\ SoleAligned(ret[p], n, par.humidity, KeyOf(tree), "humidity", "percent")
                /\ SoleAligned(ret[p], n, par.pop, KeyOf(tree),
                               "precipitation_probability", "percent")
                /\ SoleAligned(ret[p], n, par.cloud, KeyOf(tree), "cloud_cover", "percent")
                /\ \A j \in Referencing(par.temperature, KeyOf(tree)) :
                      (/\ \A k \in Referencing(par.temperature, KeyOf(tree)) :
                            k # j => TemperatureKey(par.temperature[k])
                                        # TemperatureKey(par.temperature[j])
                       /\ Len(par.temperature[j].values) < n)
                        => Aligned(ret[p], n, par.temperature[j].values,
                                   TemperatureKey(par.temperature[j]),
                                   Get(par.temperature[j].units, "Fahrenheit"))

\* the valid_time of every record of a list
ValidTimes(list) == [i \in 1..Len(list) |-> list[i].valid_time]

\* C4: parse_hourly_forecast never raises, and no anomaly of the document
\* (no hourly layout, an unmatched series, a bad timestamp, a bad value)
\* voids the output: the call never ends in the handler that drops the
\* records, and the records of all timestamps that parse are returned
C4_AnomaliesAreOmissions ==
    \A p \in Parsers :
        Returned(p) =>
            /\ via[p] # "except"
            /\ HasHourly(root[p][1]) =>
                  ValidTimes(ret[p]) = Instants(HourlyOf(root[p][1]).times)

\* C5: a text that is not well-formed XML never reaches the parser: no
\* instance is constructed on it, no alignment step runs and no result is
\* returned; the tool call ends with the ValueError of its last handler
C5_MalformedIsReported ==
    /\ (response # <<>> /\ ~response[1].wellFormed) =>
          /\ pc \in {"construct", "raised"}
          /\ pc = "raised" => err = "Failed to fetch weather data"
          /\ root[1] = <<>> /\ ppc[1] = "none"
          /\ forecasts[Frame(1)] = <<>> /\ returns[1] = <<>>
          /\ output = <<>>
    /\ \A p \in Parsers : root[p] # <<>> => root[p][1].wellFormed

\* C5 witness: the tool call raised on a malformed text
C5_Witness ==
    /\ pc = "raised"
    /\ response = <<Malformed>>
    /\ err = "Failed to fetch weather data"

\* C6: the returned hourly_forecasts is the prefix of the parse result of
\* min(K, L) records, K the requested hours and L the length of the parse
\* result, each record unchanged and in its place
C6_TruncationIsPrefix ==
    pc = "returned" =>
        LET out == output[1].hourly_forecasts
            L == Len(ret[1])
            K == hours
        IN  /\ L >= K => (Len(out) = K /\ \A i \in 1..K : out[i] = ret[1][i])
            /\ K > L => out = ret[1]
            /\ output[1].forecast_hours = Len(out)
            /\ output[1].requested_hours = K

\* C6 witness: a parse result longer than the requested hours was cut
C6_Witness ==
    /\ pc = "returned"
    /\ Len(ret[1]) > hours
    /\ hours > 1
    /\ Len(output[1].hourly_forecasts) = hours
    /\ Has(output[1].hourly_forecasts[hours], "humidity")

\* the document of the scenario, with a layout of n timestamps
ScenarioTree(n) ==
    Tree(<<Layout(<<HourlyKey>>, Times(n))>>,
         <<[NoParameters EXCEPT
              !.temperature = <<Series(<<HourlyKey>>, <<"hourly">>, <<>>, <<T72, T74>>)>>,
              !.humidity = <<Series(<<HourlyKey>>, <<>>, <<>>, <<T55, T60, T58>>)>>]>>)

\* the record of the i-th hour of the scenario with the given values
ScenarioRecord(i, fields) ==
    [k \in {"valid_time", "datetime_readable"} \cup DOMAIN fields |->
        IF k = "valid_time"
            THEN [day |-> (17 + i) \div 24, hour |-> (17 + i) % 24,
                  minute |-> 0, second |-> 0]
        ELSE IF k = "datetime_readable"
            THEN [day |-> (17 + i) \div 24,
                  hour12 |-> IF (17 + i) % 12 = 0 THEN 12 ELSE (17 + i) % 12,
                  minute |-> 0, second |-> 0,
                  ampm |-> IF (17 + i) % 24 < 12 THEN "AM" ELSE "PM"]
        ELSE fields[k]]

\* the first three records of the scenario
ScenarioHead(list) ==
    /\ list[1] = ScenarioRecord(1,
          [temperature_hourly |-> [value |-> 72, units |-> "Fahrenheit"],
           humidity |-> [value |-> 55, units |-> "percent"]])
    /\ list[2] = ScenarioRecord(2,
          [temperature_hourly |-> [value |-> 74, units |-> "Fahrenheit"],
           humidity |-> [value |-> 60, units |-> "percent"]])
    /\ list[3] = ScenarioRecord(3, [humidity |-> [value |-> 58, units |-> "percent"]])

\* C7 as stated: the scenario with a layout of 3 timestamps gives three records
C7_ThreeTimestamps ==
    \A p \in Parsers :
        (Returned(p) /\ root[p][1] = ScenarioTree(3)) =>
            (Len(ret[p]) = 3 /\ ScenarioHead(ret[p]))

\* C7 amended: the scenario with an hourly layout of 25 timestamps gives 25
\* records: index 0 with temperature_hourly 72 and humidity 55, index 1 with
\* 74 and 60, index 2 with humidity 58 and no temperature key, and the
\* records from index 3 on with the two time fields only
C7_TwentyFiveTimestamps ==
    \A p \in Parsers :
        (Returned(p) /\ root[p][1] = ScenarioTree(25)) =>
            /\ Len(ret[p]) = 25
            /\ ScenarioHead(ret[p])
            /\ \A i \in 4..25 : ret[p][i] = ScenarioRecord(i, <<>>)

\* C7 witness: the parse of the scenario with 25 timestamps returned
C7_Witness ==
    /\ Returned(1) /\ root[1][1] = ScenarioTree(25)
    /\ via[1] = "normal"
    /\ ~Has(ret[1][3], "temperature_hourly")

\* C8: when no time layout has more than 24 timestamps, the call returns the
\* empty list by its `return []` of the layout search: no handler runs, no
\* record is made from a coarser layout, and the tool call returns a result
\* with no forecasts
C8_NoHourlyLayoutIsEmpty ==
    \A p \in Parsers :
        (/\ Returned(p)
         /\ \A i \in 1..Len(root[p][1].layouts) :
                Len(root[p][1].layouts[i].times) <= 24) =>
            /\ ret[p] = <<>>
            /\ via[p] = "no_layout"
            /\ (p = 1 /\ pc \in {"returned", "raised"}) =>
                  /\ pc = "returned"
                  /\ output[1].hourly_forecasts = <<>>
                  /\ output[1].forecast_hours = 0

\* C8 witness: a document whose only layout has exactly 24 timestamps, with
\* series that reference it, gave an empty result
C8_Witness ==
    /\ pc = "returned"
    /\ Len(root[1][1].layouts) = 1
    /\ Len(root[1][1].layouts[1].times) = 24
    /\ root[1][1].parameters # <<>>
    /\ Referencing(root[1][1].parameters[1].humidity, root[1][1].layouts[1].key[1]) # {}
    /\ output[1].hourly_forecasts = <<>>

\* C9: whatever the interleaving of the calls on independent instances, every
\* call returns what parse_hourly_forecast gives for the text of its own
\* instance, and two parses of the same text, on the same instance or on
\* two, return equal lists
C9_CallsAreIndependent ==
    /\ \A p \in Parsers : \A k \in 1..Len(returns[p]) :
          returns[p][k] = ParseHourlyForecast(root[p][1]).ret
    /\ \A p, q \in Parsers :
          root[p] = root[q] =>
             \A k \in 1..Len(returns[p]) : \A j \in 1..Len(returns[q]) :
                returns[p][k] = returns[q][j]

\* C9 witness: one instance returned twice while the other, on another
\* text, is in the middle of its second call, and the results differ
C9_Witness ==
    /\ Len(returns[1]) = 2
    /\ Len(returns[2]) = 1 /\ ppc[2] = "wind"
    /\ root[1] # root[2]
    /\ returns[1][1] # <<>> /\ returns[2][1] # <<>>
    /\ returns[1][2] # returns[2][1]

\* the arguments are in their ranges
ArgumentsValid ==
    /\ -90 <= latitude /\ latitude <= 90
    /\ -180 <= longitude /\ longitude <= 180
    /\ 1 <= hours /\ hours <= 168

\* C10: the arguments are validated before anything else: with a latitude
\* outside [-90, 90], a longitude outside [-180, 180] or hours outside
\* [1, 168] the call raises ValueError and neither a fetch nor a parse is
\* ever started; a fetch is made only after the three checks passed
C10_ValidationFirst ==
    /\ (\/ fetches > 0 \/ response # <<>> \/ output # <<>>
        \/ root[1] # <<>> \/ ppc[1] # "none") => ArgumentsValid
    /\ pc = "fetch" => (ArgumentsValid /\ fetches = 0)
    /\ (~ArgumentsValid /\ pc \notin {"check_latitude", "check_longitude", "check_hours"}) =>
          /\ pc = "raised"
          /\ err = (IF ~(-90 <= latitude /\ latitude <= 90)
                        THEN "Latitude must be between -90 and 90"
                    ELSE IF ~(-180 <= longitude /\ longitude <= 180)
                        THEN "Longitude must be between -180 and 180"
                    ELSE "Hours must be between 1 and 168")

\* C10 witness: only the hours are out of range, and the call raised before
\* any fetch
C10_Witness ==
    /\ pc = "raised"
    /\ latitude = 90 /\ longitude = 180 /\ hours = 169
    /\ err = "Hours must be between 1 and 168"
    /\ fetches = 0 /\ response = <<>> /\ ppc[1] = "none"

\* the first time layout, in document order, with more than 24 timestamps,
\* whether it has a layout-key child or not
RECURSIVE FirstOver24(_)
FirstOver24(layouts) ==
    IF layouts = <<>> THEN <<>>
    ELSE IF Len(Head(layouts).times) > 24 THEN <<Head(layouts)>>
    ELSE FirstOver24(Tail(layouts))

\* the call is past the layout selection and still running
PastSelection(p) ==
    ppc[p] \in {"skeleton", "parameters", "temperature", "humidity", "wind",
                "weather", "precipitation", "cloud"}

\* C11 as stated: the selection takes the first time layout in document order
\* with more than 24 timestamps, and its layout-key and timestamp list
C11_FirstOver24Selected ==
    \A p \in Parsers :
        PastSelection(p) =>
            /\ FirstOver24(root[p][1].layouts) # <<>>
            /\ hourly_times[Frame(p)] = FirstOver24(root[p][1].layouts)[1].times
            /\ <<hourly_layout_key[Frame(p)]>> = FirstOver24(root[p][1].layouts)[1].key

\* C11 amended: the selection takes the first time layout in document order
\* that has a layout-key child and more than 24 timestamps, with its key and
\* its timestamp list; a later layout never replaces it, also when its key
\* text is empty, and then, as when there is no such layout, the call
\* returns the empty list
C11_FirstKeyedOver24Selected ==
    \A p \in Parsers :
        /\ PastSelection(p) =>
              /\ HasHourly(root[p][1])
              /\ hourly_times[Frame(p)] = HourlyOf(root[p][1]).times
              /\ hourly_layout_key[Frame(p)] = KeyOf(root[p][1])
        /\ Returned(p) =>
              /\ via[p] = "no_layout" <=> ~HasHourly(root[p][1])
              /\ (via[p] \in {"normal", "no_parameters"}) =>
                    ValidTimes(ret[p]) = Instants(HourlyOf(root[p][1]).times)

\* C11 witness: of two layouts with a key and more than 24 timestamps the
\* earlier one was selected
C11_Witness ==
    /\ ppc[1] = "skeleton"
    /\ Len(root[1][1].layouts) = 2
    /\ \A i \in 1..2 : /\ Len(root[1][1].layouts[i].times) > 24
                       /\ root[1][1].layouts[i].key # <<>>
    /\ root[1][1].layouts[1].times # root[1][1].layouts[2].times
    /\ hourly_times[Frame(1)] = root[1][1].layouts[1].times
    /\ <<hourly_layout_key[Frame(1)]>> = root[1][1].layouts[1].key

\* every timestamp of the selected layout parses
AllParse(tree) ==
    \A i \in 1..Len(HourlyOf(tree).times) : Parseable(HourlyOf(tree).times[i])

\* cell by cell: the record of a numeric cell carries its value under the
\* key, the record of an empty or non-numeric cell lacks the key
CellWise(list, n, values, key, units) ==
    \A i \in 1..Min(n, Len(values)) :
        /\ i <= Len(list)
        /\ IF FloatOk(values[i])
           THEN /\ Has(list[i], key)
                /\ list[i][key] = [value |-> Float(values[i]), units |-> units]
           ELSE ~Has(list[i], key)

\* the first series of a tag that references the layout key is merged cell
\* by cell
FoundCellWise(list, n, elems, layout_key, key, default_units) ==
    \A j \in Referencing(elems, layout_key) :
        (\A k \in Referencing(elems, layout_key) : j <= k)
            => CellWise(list, n, elems[j].values, key, Get(elems[j].units, default_units))

\* C12: in a matching series an empty or non-numeric value cell is skipped
\* on its own: its record lacks the key, and every numeric cell of the same
\* series and of every other series is in the record of its index
C12_BadCellSkippedAlone ==
    \A p \in Parsers :
        (Returned(p) /\ HasHourly(root[p][1]) /\ AllParse(root[p][1])) =>
            LET tree == root[p][1]
                par == FirstParameters(tree)
                n == Len(HourlyOf(tree).times)
            IN  /\ FoundCellWise(ret[p], n, par.humidity, KeyOf(tree), "humidity", "percent")
                /\ FoundCellWise(ret[p], n, par.pop, KeyOf(tree),
                                 "precipitation_probability", "percent")
                /\ FoundCellWise(ret[p], n, par.cloud, KeyOf(tree), "cloud_cover", "percent")
                /\ \A j \in Referencing(par.temperature, KeyOf(tree)) :
                      (\A k \in Referencing(par.temperature, KeyOf(tree)) :
                            k # j => TemperatureKey(par.temperature[k])
                                        # TemperatureKey(par.temperature[j]))
                        => CellWise(ret[p], n, par.temperature[j].values,
                                    TemperatureKey(par.temperature[j]),
                                    Get(par.temperature[j].units, "Fahrenheit"))

\* the place, in the list of the records, of the timestamp at layout index i:
\* the number of timestamps up to i that parse
RecordOf(times, i) == Cardinality({k \in 1..i : Parseable(times[k])})

\* no cell of the series is a text that float() rejects
AllNumericOrEmpty(values) ==
    \A i \in 1..Len(values) : values[i] = <<>> \/ FloatOk(values[i])

\* the records of the timestamps that parse keep the cells of their own
\* layout index
OwnIndex(list, times, values, key, units) ==
    \A i \in 1..Len(times) :
        Parseable(times[i]) =>
            /\ RecordOf(times, i) <= Len(list)
            /\ IF i <= Len(values) /\ FloatOk(values[i])
               THEN /\ Has(list[RecordOf(times, i)], key)
                    /\ list[RecordOf(times, i)][key]
                          = [value |-> Float(values[i]), units |-> units]
               ELSE ~Has(list[RecordOf(times, i)], key)

\* the first series of a tag that references the layout key, when all its
\* cells are numeric or empty, is merged by layout index
FoundOwnIndex(list, times, elems, layout_key, key, default_units) ==
    \A j \in Referencing(elems, layout_key) :
        (/\ \A k \in Referencing(elems, layout_key) : j <= k
         /\ AllNumericOrEmpty(elems[j].values))
            => OwnIndex(list, times, elems[j].values, key, Get(elems[j].units, default_units))

\* C13: when the timestamp at a layout index is not an ISO instant the parse
\* goes on, no record is emitted for that index and no series fills it: the
\* value cell of that index is in no record, and the records of the other
\* timestamps carry the cells of their own layout index
C13_OwnIndexKept ==
    \A p \in Parsers :
        (/\ Returned(p) /\ via[p] = "normal"
         /\ HasHourly(root[p][1]) /\ ~AllParse(root[p][1])) =>
            LET tree == root[p][1]
                par == FirstParameters(tree)
                times == HourlyOf(tree).times
            IN  /\ FoundOwnIndex(ret[p], times, par.humidity, KeyOf(tree),
                                 "humidity", "percent")
                /\ FoundOwnIndex(ret[p], times, par.pop, KeyOf(tree),
                                 "precipitation_probability", "percent")
                /\ FoundOwnIndex(ret[p], times, par.cloud, KeyOf(tree),
                                 "cloud_cover", "percent")

\* C14: no record field is filled with a placeholder: a weather-conditions
\* element without a weather-summary attribute leaves weather_conditions
\* absent from the record of its index, and one with the attribute gives
\* the summary text
C14_NoPlaceholder ==
    \A p \in Parsers :
        (Returned(p) /\ via[p] = "normal" /\ AllParse(root[p][1])) =>
            LET tree == root[p][1]
                found == Find(FirstParameters(tree).weather, KeyOf(tree))
            IN  found # <<>> =>
                  \A i \in 1..Min(Len(found[1].conditions), Len(ret[p])) :
                      IF found[1].conditions[i] = <<>>
                      THEN ~Has(ret[p][i], "weather_conditions")
                      ELSE /\ Has(ret[p][i], "weather_conditions")
                           /\ ret[p][i]["weather_conditions"] = found[1].conditions[i][1]

\* the matching temperature series of a key that have a non-empty cell i
Filling(temps, layout_key, key, i) ==
    {k \in Referencing(temps, layout_key) :
        /\ TemperatureKey(temps[k]) = key
        /\ i <= Len(temps[k].values)
        /\ temps[k].values[i] # <<>>}

\* the last of them in document order
LastFilling(temps, layout_key, key, i) ==
    CHOOSE k \in Filling(temps, layout_key, key, i) :
        \A j \in Filling(temps, layout_key, key, i) : j <= k

\* what a temperature series stores for its cell i
TemperatureEntry(temp, i) ==
    [value |-> Float(temp.values[i]), units |-> Get(temp.units, "Fahrenheit")]

\* C15 as stated: two matching temperature series with different type
\* attributes are both in the records, each cell under the key of its own
\* series, and neither overwrites a value of the other
C15_DifferentTypesDistinctKeys ==
    \A p \in Parsers :
        (Returned(p) /\ HasHourly(root[p][1])) =>
            LET temps == FirstParameters(root[p][1]).temperature
                matching == Referencing(temps, KeyOf(root[p][1]))
            IN  \A j \in matching : \A k \in matching :
                    temps[j].type # temps[k].type =>
                        \A i \in 1..Min(Len(ret[p]), Len(temps[j].values)) :
                            temps[j].values[i] # <<>> =>
                                /\ Has(ret[p][i], TemperatureKey(temps[j]))
                                /\ ret[p][i][TemperatureKey(temps[j])]
                                      = TemperatureEntry(temps[j], i)

\* C15 amended: in the returned records every matching temperature series
\* is merged by position under temperature_<lower-cased type, "unknown"
\* without the attribute>; series whose lower-cased types differ never
\* overwrite each other, and of the series that share a lower-cased type the
\* last in document order with a cell at the index is the one stored
C15_LowerCasedTypeKeys ==
    \A p \in Parsers :
        (Returned(p) /\ HasHourly(root[p][1])) =>
            LET temps == FirstParameters(root[p][1]).temperature
                key == KeyOf(root[p][1])
            IN  \A j \in Referencing(temps, key) :
                    \A i \in 1..Min(Len(ret[p]), Len(temps[j].values)) :
                        temps[j].values[i] # <<>> =>
                            /\ Has(ret[p][i], TemperatureKey(temps[j]))
                            /\ ret[p][i][TemperatureKey(temps[j])]
                                  = TemperatureEntry(
                                        temps[LastFilling(temps, key,
                                                          TemperatureKey(temps[j]), i)], i)

\* C15 witness: a record carries the cells of two matching temperature
\* series of different lower-cased types, one of them without the attribute
C15_Witness ==
    /\ Returned(1) /\ via[1] = "normal" /\ Len(ret[1]) >= 2
    /\ LET temps == FirstParameters(root[1][1]).temperature
       IN  /\ Len(temps) = 3
           /\ temps[1].type = <<"maximum">> /\ temps[3].type = <<>>
           /\ Has(ret[1][2], "temperature_maximum")
           /\ Has(ret[1][2], "temperature_unknown")
           /\ ret[1][2]["temperature_maximum"] = TemperatureEntry(temps[1], 2)
           /\ ret[1][2]["temperature_unknown"] = TemperatureEntry(temps[3], 2)

\* the value cell i of the first element of a tag that references the layout
\* key, <<>> when there is none
CellOf(elems, layout_key, i) ==
    LET found == Find(elems, layout_key)
    IN  IF found = <<>> THEN <<>>
        ELSE IF i > Len(found[1].values) THEN <<>>
        ELSE found[1].values[i]

\* C16: wind speed and direction are stored only inside the nested "wind"
\* entry of a record, under "speed" and "direction"; the direction never
\* removes the speed of its index; a numeric direction cell is stored as a
\* number and any other one as the same text
C16_WindNestedFormKept ==
    \A p \in Parsers :
        (Returned(p) /\ HasHourly(root[p][1])) =>
            LET par == FirstParameters(root[p][1])
                key == KeyOf(root[p][1])
            IN  \A i \in 1..Len(ret[p]) :
                    LET speed == CellOf(par.wind_speed, key, i)
                        dir == CellOf(par.direction, key, i)
                        rec == ret[p][i]
                    IN  /\ DOMAIN rec \cap {"speed", "direction", "wind_speed",
                                            "wind_direction"} = {}
                        /\ Has(rec, "wind") <=> (speed # <<>> \/ dir # <<>>)
                        /\ Has(rec, "wind") =>
                              /\ Has(rec["wind"], "speed") <=> speed # <<>>
                              /\ Has(rec["wind"], "direction") <=> dir # <<>>
                        /\ speed # <<>> =>
                              rec["wind"]["speed"].value = Float(speed)
                        /\ dir # <<>> =>
                              rec["wind"]["direction"].value
                                = IF FloatOk(dir) THEN [number |-> Float(dir)]
                                  ELSE [text |-> dir]

\* the unit a series declares, or the fixed one of its parameter
UnitsOf(series, fixed) == IF series.units = <<>> THEN fixed ELSE series.units[1]

\* the entry of a record under `key`, when there is one, has the unit of the
\* first element of the tag that references the layout key
UnitsFrom(rec, key, elems, layout_key, fixed) ==
    Has(rec, key) =>
        /\ Find(elems, layout_key) # <<>>
        /\ rec[key].units = UnitsOf(Find(elems, layout_key)[1], fixed)

\* C17: every value stored in a record has the units attribute of its own
\* series, or without the attribute the fixed unit of the parameter:
\* temperature Fahrenheit, humidity percent, wind speed knots, wind direction
\* degrees, precipitation probability percent, cloud cover percent
C17_UnitsOfOwnSeries ==
    \A p \in Parsers :
        (Returned(p) /\ HasHourly(root[p][1])) =>
            LET par == FirstParameters(root[p][1])
                key == KeyOf(root[p][1])
            IN  \A i \in 1..Len(ret[p]) :
                    LET rec == ret[p][i]
                    IN  /\ UnitsFrom(rec, "humidity", par.humidity, key, "percent")
                        /\ UnitsFrom(rec, "precipitation_probability", par.pop, key,
                                     "percent")
                        /\ UnitsFrom(rec, "cloud_cover", par.cloud, key, "percent")
                        /\ Has(rec, "wind") =>
                              /\ UnitsFrom(rec["wind"], "speed", par.wind_speed, key,
                                           "knots")
                              /\ UnitsFrom(rec["wind"], "direction", par.direction, key,
                                           "degrees")
                        /\ \A k \in TemperatureKeys(par.temperature, key) :
                              Has(rec, k) =>
                                  /\ Filling(par.temperature, key, k, i) # {}
                                  /\ rec[k].units
                                        = UnitsOf(par.temperature[
                                              LastFilling(par.temperature, key, k, i)],
                                              "Fahrenheit")

\* C17 witness: one record holds a wind speed in the declared "mph", a
\* direction in the default degrees, a precipitation probability in the
\* declared "pct" and a cloud cover in the default percent
C17_Witness ==
    /\ Returned(1) /\ via[1] = "normal" /\ ret[1] # <<>>
    /\ Has(ret[1][1], "wind")
    /\ Has(ret[1][1], "precipitation_probability")
    /\ Has(ret[1][1], "cloud_cover")
    /\ DOMAIN ret[1][1]["wind"] = {"speed", "direction"}
    /\ ret[1][1]["wind"]["speed"].units = "mph"
    /\ ret[1][1]["wind"]["direction"].units = "degrees"
    /\ ret[1][1]["precipitation_probability"].units = "pct"
    /\ ret[1][1]["cloud_cover"].units = "percent"
    /\ FirstParameters(root[1][1]).direction[1].units = <<>>
    /\ FirstParameters(root[1][1]).cloud[1].units = <<>>

\* a series cut to its first n cells
Clip(elems, n) ==
    [j \in 1..Len(elems) |->
        IF "values" \in DOMAIN elems[j]
        THEN [elems[j] EXCEPT !.values = SubSeq(@, 1, Min(n, Len(@)))]
        ELSE [elems[j] EXCEPT !.conditions = SubSeq(@, 1, Min(n, Len(@)))]]

\* the document with every series cut to the number of records of the
\* skeleton
ClipTree(tree) ==
    IF tree.parameters = <<>> THEN tree
    ELSE LET n == NumParseable(HourlyOf(tree).times)
         IN  [tree EXCEPT !.parameters[1] =
                [temperature |-> Clip(@.temperature, n),
                 humidity |-> Clip(@.humidity, n),
                 wind_speed |-> Clip(@.wind_speed, n),
                 direction |-> Clip(@.direction, n),
                 weather |-> Clip(@.weather, n),
                 pop |-> Clip(@.pop, n),
                 cloud |-> Clip(@.cloud, n)]]

\* the call is merging the series into the skeleton
Merging(p) ==
    ppc[p] \in {"parameters", "temperature", "humidity", "wind", "weather",
                "precipitation", "cloud"}

\* a series of the tag references the layout key and has more than n cells
Longer(elems, layout_key, n) ==
    \E j \in Referencing(elems, layout_key) : Len(elems[j].values) > n

\* C18: a matching series with more value cells than the skeleton has
\* records writes only its first N cells: the number of records stays N
\* during the whole merge, and the cells at index >= N are ignored, the
\* returned list being the one of the document with every series cut to N
\* cells
C18_CellsBeyondSkeletonIgnored ==
    \A p \in Parsers :
        /\ Merging(p) =>
              Len(forecasts[Frame(p)]) = NumParseable(hourly_times[Frame(p)])
        /\ (Returned(p) /\ HasHourly(root[p][1])) =>
              /\ Len(ret[p]) <= NumParseable(HourlyOf(root[p][1]).times)
              /\ ret[p] = ParseHourlyForecast(ClipTree(root[p][1])).ret

\* C18 witness: a layout of which a timestamp was dropped, matching series
\* with more cells than records, one of them with a non-numeric cell beyond
\* the last record; the last record is filled and the call returned normally
C18_Witness ==
    /\ Returned(1) /\ via[1] = "normal" /\ ret[1] # <<>>
    /\ HasHourly(root[1][1])
    /\ Len(ret[1]) < Len(HourlyOf(root[1][1]).times)
    /\ LET par == FirstParameters(root[1][1])
           key == KeyOf(root[1][1])
       IN  /\ Longer(par.humidity, key, Len(ret[1]))
           /\ Longer(par.cloud, key, Len(ret[1]))
           /\ \E j \in Referencing(par.cloud, key) :
                 \E i \in (Len(ret[1]) + 1)..Len(par.cloud[j].values) :
                     par.cloud[j].values[i] = NotANumber
           /\ Has(ret[1][Len(ret[1])], "humidity")
           /\ Has(ret[1][Len(ret[1])], "cloud_cover")

\* the places, in the calls made on the adapter, of the calls of a method
CallsOf(method) ==
    {n \in 1..Len(adapter_calls) : adapter_calls[n].method = method}

\* the places of the calls of a method that returned
ReturnedCallsOf(method) ==
    {n \in CallsOf(method) : adapter_calls[n].outcome \notin Raised}

\* the adapter object was created: its constructor returned
Created == ReturnedCallsOf("__init__") # {}

\* the run_weather_forecast call is over
Done == mpc = "done"

\* crew.kickoff() returned and the with statement was left without __exit__
\* raising
Success ==
    /\ result # <<>>
    /\ \A n \in CallsOf("__exit__") : adapter_calls[n].outcome \notin Raised

\* C19 as stated: once the adapter is created, __exit__ is called exactly
\* once on every path of run_weather_forecast, after the attempt to enter;
\* the function never propagates an exception, it returns the crew result
\* when crew.kickoff() returned one, also when __exit__ fails, and None on
\* any other failure
C19_ExitOnEveryPath ==
    /\ Cardinality(CallsOf("__exit__")) <= 1
    /\ \A x \in CallsOf("__exit__") : \E n \in CallsOf("__enter__") : n < x
    /\ Done =>
          /\ Created => Cardinality(CallsOf("__exit__")) = 1
          /\ outcome.how = "returned"
          /\ outcome.value = IF result # <<>> THEN result[1] ELSE "None"

\* C19 amended: __exit__ is called exactly once on every path on which
\* __enter__ returned, after it, and never when the constructor or __enter__
\* raised; an instance of Exception never leaves the function: it returns the
\* crew result when crew.kickoff() returned and __exit__ did not raise, and
\* None on any failure, that of __exit__ after a successful kickoff
\* included; only an exception that is not an Exception is propagated
C19_ExitOncePerEntry ==
    /\ Cardinality(CallsOf("__exit__")) <= 1
    /\ \A x \in CallsOf("__exit__") : \E n \in ReturnedCallsOf("__enter__") : n < x
    /\ Cardinality(CallsOf("__enter__")) <= 1
    /\ \A n \in CallsOf("__enter__") : \E c \in ReturnedCallsOf("__init__") : c < n
    /\ Done =>
          /\ Cardinality(CallsOf("__exit__"))
                = Cardinality(ReturnedCallsOf("__enter__"))
          /\ outcome.how \in {"returned", "raised"}
          /\ outcome.how = "raised" =>
                /\ outcome.value = "BaseException"
                /\ raising = "BaseException"
          /\ outcome.how = "returned" =>
                outcome.value = IF Success THEN result[1] ELSE "None"

\* C19 witness: crew.kickoff() raised an Exception inside the with body,
\* __exit__ was then called once, after __enter__, and did not raise, and
\* the function returned None
C19_Witness ==
    /\ Done
    /\ failed = "kickoff"
    /\ adapter_calls = <<[method |-> "__init__", outcome |-> "ok"],
                         [method |-> "__enter__", outcome |-> "ok"],
                         [method |-> "__exit__", outcome |-> "False"]>>
    /\ outcome = [how |-> "returned", value |-> "None"]

====
